---- MODULE Spec2Model ----
(***************************************************************************)
(* A model of the bank account of src/main.rs: a BankAccount owns a Vec of *)
(* Operations; make_deposit and make_withdrawal append to it, balance and  *)
(* to_statement are derived from it.  Amounts are usize (Money), balances  *)
(* are isize; the unsigned-to-signed conversion is try_from(..).unwrap()   *)
(* and the isize arithmetic is overflow-checked or wrapping depending on   *)
(* the build profile, so both are modelled with their width.               *)
(***************************************************************************)
EXTENDS Integers, Sequences, FiniteSets, TLC

\* ---------------------------------------------------------------- bounds
\* Width in bits of usize / isize in the model (the pointer width); wide
\* enough for the amounts of the recovery scenario (200) to fit in isize.
Bits == 9
\* Longest operation log explored.
MaxOps == 3
\* Timestamps are 1..MaxDate (DateTime<Utc> is totally ordered).
MaxDate == 2

\* ------------------------------------------------------------- constants
\* The literal of `if new_balance < -50`.
OVERDRAFT_FLOOR == -50

ISIZE_MAX == 2^(Bits - 1) - 1
ISIZE_MIN == -(2^(Bits - 1))
USIZE_MAX == 2^Bits - 1

\* struct Money(usize): any usize can be wrapped, there is no constructor check.
Money == 0..USIZE_MAX
\* The amounts the callers pass: both sides of the overdraft floor, the
\* signed maximum and the first value above it.
MoneyValues == {-OVERDRAFT_FLOOR, 1 - OVERDRAFT_FLOOR, ISIZE_MAX, ISIZE_MAX + 1}
Dates == 1..MaxDate

VARIABLES
    operations,       \* BankAccount.operations : Vec<Operation>
    overflow_checks,  \* build profile: TRUE = debug (overflow panics), FALSE = release (wraps)
    panicked,         \* the process has been terminated by a panic
    call,             \* the last call made on the account and how it returned
    before,           \* self.operations when that call was entered
    last_balance,     \* what balance() returned since the last make_deposit / make_withdrawal call
    last_statement,   \* what to_statement() returned since the last make_deposit / make_withdrawal call
    atomic,           \* multi-caller runs: TRUE = a make_withdrawal call is one step (serialized)
    callers           \* multi-caller runs: where each caller is inside make_withdrawal

vars == <<operations, overflow_checks, panicked, call, before, last_balance, last_statement,
          atomic, callers>>

\* ----------------------------------------------------- outcomes of an isize expression
\* An isize computation either returns a value or panics.
Ret(v) == [panic |-> FALSE, v |-> v]
Panic == [panic |-> TRUE, v |-> 0]

InIsize(x) == ISIZE_MIN <= x /\ x <= ISIZE_MAX
\* Two's-complement wrap of a mathematical integer into isize.
Wrap(x) == ((x - ISIZE_MIN) % (2^Bits)) + ISIZE_MIN

\* What an isize `+` / `-` / `+=` does with the mathematical result x.
Arith(x) ==
    IF InIsize(x) THEN Ret(x)
    ELSE IF overflow_checks THEN Panic
    ELSE Ret(Wrap(x))

\* isize::try_from(u).unwrap()
TryFromUnwrap(u) == IF u <= ISIZE_MAX THEN Ret(u) ELSE Panic

Add(a, b) == IF a.panic \/ b.panic THEN Panic ELSE Arith(a.v + b.v)
Sub(a, b) == IF a.panic \/ b.panic THEN Panic ELSE Arith(a.v - b.v)

\* ------------------------------------------------------------- Operation
Operation(t, money, date) == [operation_type |-> t, amount |-> money, date |-> date]

\* A variant of Operation::value that does not negate a withdrawal.
value_unsigned(op) == TryFromUnwrap(op.amount)

\* Operation::value
value(op) ==
    LET c == TryFromUnwrap(op.amount)
    IN  IF c.panic THEN Panic
        ELSE IF op.operation_type = "Deposit" THEN Ret(c.v) ELSE Ret(-c.v)

\* ------------------------------------------------------------ BankAccount
\* A variant of new that starts the ledger with an opening operation.
new_with_opening_deposit == <<Operation("Deposit", -OVERDRAFT_FLOOR, 1)>>

\* BankAccount::new
new == <<>>

\* BankAccount::balance: self.operations.iter().map(|op| op.value()).sum()
RECURSIVE balance(_)
balance(ops) ==
    IF ops = <<>> THEN Ret(0)
    ELSE Add(balance(SubSeq(ops, 1, Len(ops) - 1)), value(ops[Len(ops)]))

\* A variant of push that inserts at the head of the vector (insert(0, op)).
push_front(ops, op) == <<op>> \o ops

\* Vec::push
push(ops, op) == Append(ops, op)

\* The closure of to_statement applied to operations 1..k: the line of the
\* k-th operation, with the accumulator after `balance += op.value()`.
RECURSIVE running(_, _)
running(ops, k) ==
    IF k = 0 THEN Ret(0) ELSE Add(running(ops, k - 1), value(ops[k]))

StatementLine(ops, k) ==
    [date |-> ops[k].date, amount |-> value(ops[k]).v, balance |-> running(ops, k).v]

\* A variant of the comparator with its arguments the other way round
\* (a.date.cmp(&b.date)): oldest first.
sort_cmp_ascending(a, b) == a.date <= b.date

\* The comparator of lines.sort_by(|a, b| b.date.cmp(&a.date)): TRUE when
\* the comparison of a with b is not Greater, i.e. a may stay before b.
sort_cmp(a, b) == b.date <= a.date

\* A variant of the sort that is not stable (what sort_unstable_by may do):
\* an element goes in front of the elements that compare equal to it.
RECURSIVE sort_by_ties_reversed(_)
sort_by_ties_reversed(s) ==
    IF s = <<>> THEN <<>>
    ELSE LET n == Len(s)
             x == s[n]
             h == sort_by_ties_reversed(SubSeq(s, 1, n - 1))
             k == Cardinality({i \in 1..(n - 1) : ~sort_cmp(x, h[i])})
         IN  SubSeq(h, 1, k) \o <<x>> \o SubSeq(h, k + 1, n - 1)

\* slice::sort_by is a stable sort: each element goes behind every element
\* it does not have to precede.
RECURSIVE sort_by(_)
sort_by(s) ==
    IF s = <<>> THEN <<>>
    ELSE LET n == Len(s)
             x == s[n]
             h == sort_by(SubSeq(s, 1, n - 1))
             k == Cardinality({i \in 1..(n - 1) : sort_cmp(h[i], x)})
         IN  SubSeq(h, 1, k) \o <<x>> \o SubSeq(h, k + 1, n - 1)

\* BankAccount::to_statement: the lines, or a panic of the fold.
to_statement(ops) ==
    IF running(ops, Len(ops)).panic \/ \E k \in 1..Len(ops) : value(ops[k]).panic
    THEN [panic |-> TRUE, lines |-> <<>>]
    ELSE [panic |-> FALSE, lines |-> sort_by([k \in 1..Len(ops) |-> StatementLine(ops, k)])]

\* ------------------------------------------------------------------ state
Unknown == [known |-> FALSE, v |-> 0]
UnknownLines == [known |-> FALSE, lines |-> <<>>]
Called(name, money, date, result) ==
    [name |-> name, money |-> money, date |-> date, result |-> result]

\* The callers of the multi-caller runs, and a caller that is not inside a call.
Callers == {"c1", "c2"}
Idle == [pc |-> "idle", money |-> 0, date |-> 0, new_balance |-> 0]
NoCallers == [c \in Callers |-> Idle]

Init ==
    /\ operations = new
    /\ overflow_checks \in BOOLEAN
    /\ panicked = FALSE
    /\ call = Called("new", 0, 0, "Unit")
    /\ before = <<>>
    /\ last_balance = Unknown
    /\ last_statement = UnknownLines
    /\ atomic = TRUE
    /\ callers = NoCallers

\* BankAccount::make_deposit
make_deposit(money, date) ==
    /\ ~panicked
    /\ Len(operations) < MaxOps
    /\ before' = operations
    /\ operations' = push(operations, Operation("Deposit", money, date))
    /\ call' = Called("make_deposit", money, date, "Unit")
    /\ last_balance' = Unknown
    /\ last_statement' = UnknownLines
    /\ UNCHANGED <<overflow_checks, panicked, atomic, callers>>

\* A variant of the candidate balance that forgets to subtract the amount
\* (the floor is checked on the current balance).
candidate_balance_current(ops, money) ==
    IF TryFromUnwrap(money).panic THEN Panic ELSE balance(ops)

\* let new_balance = self.balance() - isize::try_from(money.0).unwrap();
candidate_balance(ops, money) == Sub(balance(ops), TryFromUnwrap(money))

\* A variant of the floor test that allows no overdraft at all.
rejects_below_zero(new_balance) == new_balance < 0

\* if new_balance < -50
rejects(new_balance) == new_balance < OVERDRAFT_FLOOR

\* A variant of make_withdrawal that pushes before it checks the floor.
withdrawal_log_push_first(ops, new_balance, money, date) ==
    push(ops, Operation("Withdraw", money, date))

\* What make_withdrawal does to the log once new_balance is computed.
withdrawal_log(ops, new_balance, money, date) ==
    IF rejects(new_balance) THEN ops
    ELSE push(ops, Operation("Withdraw", money, date))

\* BankAccount::make_withdrawal
make_withdrawal(money, date) ==
    /\ ~panicked
    /\ Len(operations) < MaxOps
    /\ before' = operations
    /\ LET new_balance == candidate_balance(operations, money)
       IN  IF new_balance.panic
           THEN /\ panicked' = TRUE
                /\ call' = Called("make_withdrawal", money, date, "Panic")
                /\ UNCHANGED <<operations, last_balance, last_statement>>
           ELSE /\ operations' = withdrawal_log(operations, new_balance.v, money, date)
                /\ call' = Called("make_withdrawal", money, date,
                                  IF rejects(new_balance.v) THEN "Err" ELSE "Ok")
                /\ last_balance' = Unknown
                /\ last_statement' = UnknownLines
                /\ UNCHANGED panicked
    /\ UNCHANGED <<overflow_checks, atomic, callers>>

\* A call of BankAccount::balance (&self).
call_balance ==
    /\ ~panicked
    /\ before' = operations
    /\ LET b == balance(operations)
       IN  IF b.panic
           THEN /\ panicked' = TRUE
                /\ call' = Called("balance", 0, 0, "Panic")
                /\ UNCHANGED last_balance
           ELSE /\ last_balance' = [known |-> TRUE, v |-> b.v]
                /\ call' = Called("balance", 0, 0, "Value")
                /\ UNCHANGED panicked
    /\ UNCHANGED <<operations, overflow_checks, last_statement, atomic, callers>>

\* A variant of to_statement that sorts the ledger itself (&mut self) and
\* then folds it, instead of sorting the lines it has built.
call_to_statement_in_place ==
    /\ ~panicked
    /\ before' = operations
    /\ operations' = sort_by(operations)
    /\ LET s == to_statement(operations')
       IN  IF s.panic
           THEN /\ panicked' = TRUE
                /\ call' = Called("to_statement", 0, 0, "Panic")
                /\ UNCHANGED last_statement
           ELSE /\ last_statement' = [known |-> TRUE, lines |-> s.lines]
                /\ call' = Called("to_statement", 0, 0, "Value")
                /\ UNCHANGED panicked
    /\ UNCHANGED <<overflow_checks, last_balance, atomic, callers>>

\* A call of BankAccount::to_statement (&self).
call_to_statement ==
    /\ ~panicked
    /\ before' = operations
    /\ LET s == to_statement(operations)
       IN  IF s.panic
           THEN /\ panicked' = TRUE
                /\ call' = Called("to_statement", 0, 0, "Panic")
                /\ UNCHANGED last_statement
           ELSE /\ last_statement' = [known |-> TRUE, lines |-> s.lines]
                /\ call' = Called("to_statement", 0, 0, "Value")
                /\ UNCHANGED panicked
    /\ UNCHANGED <<operations, overflow_checks, last_balance, atomic, callers>>

Next ==
    \/ \E money \in MoneyValues, date \in Dates : make_deposit(money, date)
    \/ \E money \in MoneyValues, date \in Dates : make_withdrawal(money, date)
    \/ call_balance
    \/ call_to_statement

Spec == Init /\ [][Next]_vars

\* ------------------------------------------------------ multi-caller runs
\* Two callers share the account and only withdraw.  With atomic = TRUE a
\* call of make_withdrawal is one step (the account is behind a lock); with
\* atomic = FALSE the computation of new_balance and the test-and-push are
\* two steps of the caller, and steps of the two callers interleave.

\* The accounts the callers start from: a new one, or one deposit.
OpeningLogs ==
    {new} \cup {<<Operation("Deposit", money, date)>> :
                    money \in {-OVERDRAFT_FLOOR, 1 - OVERDRAFT_FLOOR}, date \in Dates}

InitConcurrent ==
    /\ operations \in OpeningLogs
    /\ overflow_checks \in BOOLEAN
    /\ panicked = FALSE
    /\ call = Called("new", 0, 0, "Unit")
    /\ before = <<>>
    /\ last_balance = Unknown
    /\ last_statement = UnknownLines
    /\ atomic \in BOOLEAN
    /\ callers = NoCallers

InCall == {c \in Callers : callers[c].pc = "checked"}

\* A whole make_withdrawal call of one caller, under the lock.
withdraw_atomic(c, money, date) ==
    /\ atomic
    /\ callers[c].pc = "idle"
    /\ make_withdrawal(money, date)

\* First step of make_withdrawal without the lock:
\* let new_balance = self.balance() - isize::try_from(money.0).unwrap();
withdraw_check(c, money, date) ==
    /\ ~atomic
    /\ ~panicked
    /\ callers[c].pc = "idle"
    /\ Len(operations) + Cardinality(InCall) < MaxOps
    /\ LET new_balance == candidate_balance(operations, money)
       IN  IF new_balance.panic
           THEN /\ panicked' = TRUE
                /\ UNCHANGED callers
           ELSE /\ callers' = [callers EXCEPT ![c] =
                                  [pc |-> "checked", money |-> money, date |-> date,
                                   new_balance |-> new_balance.v]]
                /\ UNCHANGED panicked
    /\ UNCHANGED <<operations, overflow_checks, call, before, last_balance, last_statement,
                   atomic>>

\* Second step of make_withdrawal without the lock:
\* if new_balance < -50 { Err(..) } else { self.operations.push(..); Ok(()) }
withdraw_finish(c) ==
    /\ ~atomic
    /\ ~panicked
    /\ callers[c].pc = "checked"
    /\ operations' = withdrawal_log(operations, callers[c].new_balance,
                                    callers[c].money, callers[c].date)
    /\ callers' = [callers EXCEPT ![c] = Idle]
    /\ UNCHANGED <<overflow_checks, panicked, call, before, last_balance, last_statement,
                   atomic>>

NextConcurrent ==
    \/ \E c \in Callers, money \in MoneyValues, date \in Dates : withdraw_atomic(c, money, date)
    \/ \E c \in Callers, money \in MoneyValues, date \in Dates : withdraw_check(c, money, date)
    \/ \E c \in Callers : withdraw_finish(c)

SpecConcurrent == InitConcurrent /\ [][NextConcurrent]_vars

\* The amounts of the demonstration sequence of main: a deposit of 100, a
\* refused withdrawal of 200, a withdrawal of 120.
ScenarioValues == {100, 120, 200}

NextScenario ==
    \/ \E money \in ScenarioValues, date \in Dates : make_deposit(money, date)
    \/ \E money \in ScenarioValues, date \in Dates : make_withdrawal(money, date)
    \/ call_balance
    \/ call_to_statement

\* The account driven with the amounts of the demonstration sequence.
SpecScenario == Init /\ [][NextScenario]_vars

TypeOK ==
    /\ operations \in Seq([operation_type : {"Deposit", "Withdraw"}, amount : Money, date : Dates])
    /\ Len(operations) <= MaxOps
    /\ overflow_checks \in BOOLEAN
    /\ panicked \in BOOLEAN

\* ------------------------------------------------- vocabulary of the claims
\* The signed value of an operation and the sums of signed values as
\* mathematical integers (no width).
SignedValue(op) == IF op.operation_type = "Deposit" THEN op.amount ELSE -op.amount

RECURSIVE SumSigned(_, _)
SumSigned(ops, k) == IF k = 0 THEN 0 ELSE SumSigned(ops, k - 1) + SignedValue(ops[k])

IsPrefix(s, t) == Len(s) <= Len(t) /\ SubSeq(t, 1, Len(s)) = s

Count(s, x) == Cardinality({i \in DOMAIN s : s[i] = x})
IsPermutation(s, t) ==
    /\ Len(s) = Len(t)
    /\ \A i \in DOMAIN s : Count(s, s[i]) = Count(t, s[i])

Returned(name, result) == call.name = name /\ call.result = result

\* ---------------------------------------------------------------- claims

\* C1: after any sequence of deposit and withdraw calls, balance() is >= -50
\* in every reachable state.
C1_OverdraftFloor ==
    LET b == balance(operations)
    IN  ~b.panic => b.v >= OVERDRAFT_FLOOR

\* C2: withdraw(amount) returns success if and only if
\* balance() - amount >= -50 (the floor is inclusive).
C2_WithdrawalAcceptance ==
    LET b == balance(before)
    IN  call.name = "make_withdrawal" /\ ~b.panic =>
            (call.result = "Ok" <=> b.v - call.money >= OVERDRAFT_FLOOR)

\* C3: whenever withdraw returns the insufficient-funds error, the log after
\* the call is identical to the log before the call, and so are balance()
\* and to_statement().
C3_RejectedIsNoOp ==
    Returned("make_withdrawal", "Err") =>
        /\ operations = before
        /\ balance(operations) = balance(before)
        /\ to_statement(operations) = to_statement(before)

\* C3 witness: a withdrawal was rejected on an account that already holds
\* operations, and the log is still the one from before the call.
C3_Witness ==
    /\ Returned("make_withdrawal", "Err")
    /\ Len(before) >= 2
    /\ operations = before
    /\ balance(before) = Ret(SumSigned(before, Len(before)))
    /\ SumSigned(before, Len(before)) - call.money < OVERDRAFT_FLOOR

\* C4: whenever withdraw(amount, timestamp) returns success, the log has
\* grown by exactly one Withdraw entry at the end carrying that amount and
\* timestamp, and balance() equals balance() before minus exactly amount.
C4_SuccessfulWithdrawal ==
    Returned("make_withdrawal", "Ok") =>
        /\ operations = Append(before, Operation("Withdraw", call.money, call.date))
        /\ balance(operations) = Ret(balance(before).v - call.money)

\* C5: deposit(amount, timestamp) is enabled for every amount, appends
\* exactly one Deposit entry with that amount and timestamp at the end of
\* the log and raises balance() by exactly amount; after deposits a1..an on
\* a new account balance() = a1 + ... + an.
C5_DepositAlwaysSucceeds ==
    /\ (~panicked /\ Len(operations) < MaxOps) =>
           \A money \in MoneyValues, date \in Dates : ENABLED make_deposit(money, date)
    /\ call.name = "make_deposit" =>
           /\ operations = Append(before, Operation("Deposit", call.money, call.date))
           /\ ~balance(before).panic =>
                  balance(operations) = Ret(balance(before).v + call.money)
           /\ (\A i \in DOMAIN operations : operations[i].operation_type = "Deposit") =>
                  balance(operations) = Ret(SumSigned(operations, Len(operations)))

\* The line the claims expect for the k-th appended operation: its
\* timestamp, its signed value, and the sum of the signed values of
\* operations 1..k in insertion order.
ExpectedLine(ops, k) ==
    [date |-> ops[k].date, amount |-> SignedValue(ops[k]), balance |-> SumSigned(ops, k)]

\* C6: the statement line produced for the k-th appended operation carries a
\* running balance equal to the sum of the signed values of operations 1..k
\* in insertion order, wherever the line ends up after sorting.
C6_RunningBalancesFaithful ==
    last_statement.known =>
        IsPermutation(last_statement.lines,
                      [k \in 1..Len(operations) |-> ExpectedLine(operations, k)])

\* C7: the lines returned by to_statement() are ordered by timestamp
\* descending: each line's timestamp is >= the next line's timestamp.
C7_StatementDescending ==
    last_statement.known =>
        \A i \in 1..(Len(last_statement.lines) - 1) :
            last_statement.lines[i].date >= last_statement.lines[i + 1].date

\* C7 witness: to_statement() returned the lines of a log whose timestamps
\* were appended in ascending order, so the sort had to reverse them.
C7_Witness ==
    /\ Returned("to_statement", "Value")
    /\ last_statement.known
    /\ Len(operations) >= 2
    /\ operations[1].date < operations[Len(operations)].date
    /\ last_statement.lines[1].date > last_statement.lines[Len(operations)].date

\* C8: along every execution the log of an earlier state is a prefix of the
\* log of every later state: no call removes, reorders or changes an
\* appended operation, and the log length never decreases.
C8_AppendOnly == [][IsPrefix(operations, operations')]_vars

\* C8 witness: a log that was grown by appends, then went through a rejected
\* withdrawal or reads, and still holds what was appended.
C8_Witness ==
    /\ Len(operations) = MaxOps
    /\ Returned("to_statement", "Value")
    /\ last_balance.known
    /\ operations = before
    /\ \E i \in DOMAIN operations : operations[i].operation_type = "Withdraw"

\* C9: balance() and to_statement() leave the log unchanged, and called
\* again with no deposit or withdraw in between they return what they
\* returned before.
C9_ReadsRepeatable ==
    [][call'.name \in {"balance", "to_statement"} =>
          /\ operations' = operations
          /\ (call'.name = "balance" /\ last_balance.known) =>
                 (~panicked' /\ last_balance' = last_balance)
          /\ (call'.name = "to_statement" /\ last_statement.known) =>
                 (~panicked' /\ last_statement' = last_statement)
          /\ (call'.name = "balance") => last_statement' = last_statement
          /\ (call'.name = "to_statement") => last_balance' = last_balance]_vars

\* C9 witness: both reads have returned on a non-empty log since the last
\* deposit or withdrawal, the last of them after the other.
C9_Witness ==
    /\ call.name \in {"balance", "to_statement"}
    /\ last_balance.known
    /\ last_statement.known
    /\ Len(operations) >= 2
    /\ Len(last_statement.lines) = Len(operations)
    /\ operations = before

\* C10: no operation in a reachable log has an amount above the signed
\* maximum (such an amount is rejected before an Operation is built), and no
\* deposit, withdraw, balance or to_statement call aborts the process.
C10_OutOfRangeRejected ==
    /\ \A i \in DOMAIN operations : operations[i].amount <= ISIZE_MAX
    /\ ~panicked

\* C11: a newly constructed account has an empty operation log, balance()
\* is 0 and to_statement() returns a statement with no lines.
C11_NewAccount ==
    /\ call.name = "new" =>
           /\ operations = <<>>
           /\ balance(operations) = Ret(0)
           /\ to_statement(operations) = [panic |-> FALSE, lines |-> <<>>]
    /\ (before = new /\ Returned("balance", "Value")) => last_balance.v = 0
    /\ (before = new /\ Returned("to_statement", "Value")) => last_statement.lines = <<>>
    /\ (before = new /\ call.name \in {"balance", "to_statement"}) => ~panicked

\* C11 witness: both reads have returned on the account as constructed.
C11_Witness ==
    /\ operations = new
    /\ before = new
    /\ call.name \in {"balance", "to_statement"}
    /\ last_balance = [known |-> TRUE, v |-> 0]
    /\ last_statement = [known |-> TRUE, lines |-> <<>>]

\* An account whose only operation is a deposit of 100.
OnlyDeposit100(ops) ==
    /\ Len(ops) = 1
    /\ ops[1].operation_type = "Deposit"
    /\ ops[1].amount = 100

\* C12: on an account whose only operation is a deposit of 100,
\* withdraw(200) is rejected, balance() stays 100 and the log length stays
\* 1; a subsequent withdraw(120) succeeds and leaves balance() = -20.
C12_RecoveryScenario ==
    /\ [](/\ (OnlyDeposit100(before) /\ call.name = "make_withdrawal" /\ call.money = 200) =>
                 /\ call.result = "Err"
                 /\ Len(operations) = 1
                 /\ operations = before
                 /\ balance(operations) = Ret(100)
          /\ (OnlyDeposit100(before) /\ call.name = "make_withdrawal" /\ call.money = 120) =>
                 /\ call.result = "Ok"
                 /\ Len(operations) = 2
                 /\ balance(operations) = Ret(-20))
    /\ [][(/\ OnlyDeposit100(operations)
           /\ Returned("make_withdrawal", "Err")
           /\ call.money = 200
           /\ call'.name = "make_withdrawal"
           /\ call'.money = 120) =>
              (call'.result = "Ok" /\ balance(operations') = Ret(-20))]_vars

\* C12 witness: the withdrawal of 120 was accepted on the account holding
\* only the deposit of 100, which is what a refused withdrawal of 200 leaves.
C12_Witness ==
    /\ OnlyDeposit100(before)
    /\ Returned("make_withdrawal", "Ok")
    /\ call.money = 120
    /\ Len(operations) = 2
    /\ operations[2].operation_type = "Withdraw"
    /\ balance(operations) = Ret(-20)
    /\ candidate_balance(before, 200).v < OVERDRAFT_FLOOR

\* The timestamp and amount of each line of a statement.
DatedAmounts(lines) ==
    [i \in 1..Len(lines) |-> [date |-> lines[i].date, amount |-> lines[i].amount]]

\* C13: to_statement() returns exactly one line per operation, and each
\* line's timestamp and amount are the timestamp and signed value (+amount
\* for Deposit, -amount for Withdraw) of the operation it was produced from.
C13_StatementIsPermutation ==
    last_statement.known =>
        /\ Len(last_statement.lines) = Len(operations)
        /\ IsPermutation(DatedAmounts(last_statement.lines),
                         [k \in 1..Len(operations) |->
                             [date |-> operations[k].date,
                              amount |-> SignedValue(operations[k])]])

\* C13 witness: a statement was returned for a full log that holds a
\* deposit and a withdrawal and whose lines are not in insertion order.
C13_Witness ==
    /\ Returned("to_statement", "Value")
    /\ Len(operations) = MaxOps
    /\ Len(last_statement.lines) = MaxOps
    /\ \E i, j \in DOMAIN operations :
           /\ operations[i].operation_type = "Deposit"
           /\ operations[j].operation_type = "Withdraw"
    /\ last_statement.lines[1].date # operations[1].date

\* The lines of a statement that carry timestamp d, in their order.
LinesAt(lines, d) ==
    LET At(l) == l.date = d IN SelectSeq(lines, At)

\* C14: when operations of the log have the same timestamp, their lines
\* appear in to_statement() in the order the operations were appended.
C14_StableTieBreak ==
    last_statement.known =>
        \A d \in Dates :
            LinesAt(last_statement.lines, d) =
                LinesAt([k \in 1..Len(operations) |-> StatementLine(operations, k)], d)

\* C14 witness: the first and the last appended operation share a timestamp,
\* a later timestamp lies between them, their lines differ, and the
\* statement shows the later one first and then the two in append order.
C14_Witness ==
    /\ Returned("to_statement", "Value")
    /\ Len(operations) = 3
    /\ operations[1].date = operations[3].date
    /\ operations[2].date > operations[1].date
    /\ StatementLine(operations, 1) # StatementLine(operations, 3)
    /\ last_statement.lines = <<StatementLine(operations, 2),
                                StatementLine(operations, 1),
                                StatementLine(operations, 3)>>

\* C15: with two callers withdrawing from the same account, balance() >= -50
\* holds in every interleaving when each call's check and append are one
\* atomic step; when the check and the append are separate steps, a state
\* with balance() < -50 is reachable (C15_Witness).
C15_SerializedWithdrawals ==
    LET b == balance(operations)
    IN  (atomic /\ ~b.panic) => b.v >= OVERDRAFT_FLOOR

\* C15 witness: without atomicity both callers passed the check against the
\* same balance and both appended: the log ends with two withdrawals, no sum
\* left the isize range, and balance() is below the floor.
C15_Witness ==
    /\ ~atomic
    /\ InCall = {}
    /\ Len(operations) >= 2
    /\ operations[Len(operations)].operation_type = "Withdraw"
    /\ operations[Len(operations) - 1].operation_type = "Withdraw"
    /\ \A k \in 0..Len(operations) : InIsize(SumSigned(operations, k))
    /\ balance(operations) = Ret(SumSigned(operations, Len(operations)))
    /\ balance(operations).v < OVERDRAFT_FLOOR
    /\ SumSigned(operations, Len(operations) - 2) - operations[Len(operations)].amount
           >= OVERDRAFT_FLOOR
    /\ SumSigned(operations, Len(operations) - 1) >= OVERDRAFT_FLOOR

\* C16: every line returned by to_statement() has a running balance >= -50,
\* and the running balance of the line of a Deposit is never lower than the
\* running balance of the operation appended immediately before it.
C16_HistoryInvariant ==
    last_statement.known =>
        /\ \A i \in DOMAIN last_statement.lines :
               last_statement.lines[i].balance >= OVERDRAFT_FLOOR
        /\ \A k \in DOMAIN operations :
               operations[k].operation_type = "Deposit" =>
                   running(operations, k).v >= running(operations, k - 1).v

\* The sum of the amount fields of the first n lines of a statement.
RECURSIVE SumAmounts(_, _)
SumAmounts(lines, n) == IF n = 0 THEN 0 ELSE SumAmounts(lines, n - 1) + lines[n].amount

\* C17: for a non-empty log, the running balance on the statement line of
\* the last-appended operation equals balance(), and balance() equals the
\* sum of the amount fields of all statement lines.
C17_StatementAgreesWithBalance ==
    (last_statement.known /\ last_balance.known /\ operations # <<>>) =>
        /\ \E i \in DOMAIN last_statement.lines :
               /\ last_statement.lines[i] = StatementLine(operations, Len(operations))
               /\ last_statement.lines[i].balance = last_balance.v
        /\ last_balance.v = SumAmounts(last_statement.lines, Len(last_statement.lines))

\* C18: with every stored amount at most the signed maximum, neither the
\* summation of balance(), nor the running sum of to_statement(), nor the
\* subtraction balance() - amount of withdraw leaves the signed range:
\* withdraw never accepts a withdrawal whose candidate balance wrapped, and
\* deposits never make balance() wrap negative.
C18_NoOverflow ==
    (\A i \in DOMAIN operations : operations[i].amount <= ISIZE_MAX) =>
        /\ \A k \in 0..Len(operations) : InIsize(SumSigned(operations, k))
        /\ (call.name = "make_withdrawal" /\ call.money <= ISIZE_MAX) =>
               InIsize(SumSigned(before, Len(before)) - call.money)
        /\ Returned("make_withdrawal", "Ok") =>
               SumSigned(before, Len(before)) - call.money >= OVERDRAFT_FLOOR
        /\ (\A i \in DOMAIN operations : operations[i].operation_type = "Deposit") =>
               (~balance(operations).panic /\ balance(operations).v >= 0)

====
